---- MODULE Spec2Model ----
(***************************************************************************)
(* Model of the Screen class of hV_Screen.py: the two bit-planes, the      *)
(* orientation mapper, the raster primitives and the panel-update          *)
(* protocol run by flush().                                                *)
(*                                                                         *)
(* Python semantics kept by the model:                                     *)
(*   - integers are unbounded; >> 3 and % 8 round towards minus infinity,  *)
(*     as \div and % do here;                                              *)
(*   - bytearray[z] accepts -len <= z < len (negative z counts from the    *)
(*     end) and raises IndexError otherwise;                               *)
(*   - an exception leaves the calls of the object made so far in effect   *)
(*     and is recorded in lastCall.raised.                                 *)
(***************************************************************************)
EXTENDS Integers, Sequences, FiniteSets, TLC

VARIABLES
    screenSizeV,   \* self._screenSizeV (constructor argument screenW)
    screenSizeH,   \* self._screenSizeH (constructor argument screenH)
    newImage,      \* self._newImage, the "current" plane: [0..size-1 -> 0..255]
    oldImage,      \* self._oldImage, the "previous" plane
    orientation,   \* self._orientation
    invert,        \* self._invert
    penSolid,      \* self._penSolid
    fontSolid,     \* self._fontSolid
    fontSize,      \* self._fontSize
    cs,            \* level of the chip-select pin (0 = selected)
    dc,            \* level of the data/command pin (0 = command)
    busy,          \* level of the panel's busy pin (0 = busy, 1 = ready)
    bus,           \* pin changes and SPI writes of the flush in progress (or of the last one)
    pc,            \* position of the caller inside flush() or regenerate(); "idle" between calls
    ret,           \* position the flush() in progress returns to
    lastCall,      \* the last call of the API: its name, arguments, exception and result
    callsLeft,     \* calls of the API the exploration still makes
    drawsLeft      \* drawing calls the exploration still makes

vars == <<screenSizeV, screenSizeH, newImage, oldImage, orientation, invert,
          penSolid, fontSolid, fontSize, cs, dc, busy, bus, pc, ret, lastCall,
          callsLeft, drawsLeft>>

----------------------------------------------------------------------------
(* Bounds of the exploration *)

\* calls of the API explored in one run of Spec
MaxCalls == 2
\* calls of the API explored in one run of RasterSpec
MaxRasterCalls == 2
\* drawing calls (point, line, rectangle, circle, gText) among them
MaxDraws == 1
\* characters of the text handed to gText
MaxTextLen == 1
\* how far below zero the coordinates handed to the drawing calls reach
CoordMargin == 1
\* largest radius handed to circle
MaxRadius == 2

\* (screenW, screenH) pairs handed to the constructor
Panels == {<<2, 8>>, <<2, 12>>, <<2, 16>>}

----------------------------------------------------------------------------
(* Colour constants, class Colour *)

BLACK == 0
WHITE == 65535
GREY == 31727

Colours == {BLACK, WHITE, GREY}

----------------------------------------------------------------------------
(* Utilities *)

RECURSIVE Pow2(_)
Pow2(n) == IF n = 0 THEN 1 ELSE 2 * Pow2(n - 1)

\* value & (1 << bit_index)
bitRead(value, bit_index) ==
    ((value \div Pow2(bit_index)) % 2) * Pow2(bit_index)

\* value | (1 << bit_index)
bitSet(value, bit_index) ==
    IF bitRead(value, bit_index) # 0 THEN value ELSE value + Pow2(bit_index)

\* value & ~(1 << bit_index)
bitClear(value, bit_index) ==
    IF bitRead(value, bit_index) # 0 THEN value - Pow2(bit_index) ELSE value

\* a | b on two bytes
RECURSIVE bitOrFrom(_, _, _)
bitOrFrom(a, b, i) ==
    IF i > 7 THEN 0
    ELSE (IF bitRead(a, i) # 0 \/ bitRead(b, i) # 0 THEN Pow2(i) ELSE 0)
         + bitOrFrom(a, b, i + 1)

BitOr(a, b) == bitOrFrom(a, b, 0)

\* Python's a ^ b on two booleans
Xor(a, b) == a # b

\* the fields __init__ derives from the panel size
bufferSizeH == screenSizeH \div 8
pageColourSize == screenSizeV * bufferSizeH

\* the index a bytearray of length n resolves z to, or -1 for IndexError
PyIndex(z, n) ==
    IF z >= 0 /\ z < n THEN z
    ELSE IF z < 0 /\ z >= -n THEN z + n
    ELSE -1

\* a plane of n bytes, all equal to b
Filled(n, b) == [i \in 0..(n - 1) |-> b]

\* the bytes of a plane in index order, as spi.write receives them
Bytes(img) == [i \in 1..pageColourSize |-> img[i - 1]]

----------------------------------------------------------------------------
(* Orientation *)

screenSizeX ==
    IF orientation = 1 \/ orientation = 3 THEN screenSizeV
    ELSE IF orientation = 0 \/ orientation = 2 THEN screenSizeH
    ELSE 0

screenSizeY ==
    IF orientation = 1 \/ orientation = 3 THEN screenSizeH
    ELSE IF orientation = 0 \/ orientation = 2 THEN screenSizeV
    ELSE 0

\* flag: FALSE = success, TRUE = error
orientCoordinates(x, y) ==
    IF orientation = 3 THEN
        IF x < screenSizeV /\ y < screenSizeH
        THEN [flag |-> FALSE, x |-> screenSizeV - 1 - x, y |-> y]
        ELSE [flag |-> TRUE, x |-> x, y |-> y]
    ELSE IF orientation = 2 THEN
        IF x < screenSizeH /\ y < screenSizeV
        THEN [flag |-> FALSE, x |-> screenSizeV - 1 - y, y |-> screenSizeH - 1 - x]
        ELSE [flag |-> TRUE, x |-> x, y |-> y]
    ELSE IF orientation = 1 THEN
        IF x < screenSizeV /\ y < screenSizeH
        THEN [flag |-> FALSE, x |-> x, y |-> screenSizeH - 1 - y]
        ELSE [flag |-> TRUE, x |-> x, y |-> y]
    ELSE
        IF x < screenSizeH /\ y < screenSizeV
        THEN [flag |-> FALSE, x |-> y, y |-> x]
        ELSE [flag |-> TRUE, x |-> x, y |-> y]

getZT(x1, y1) == [z |-> x1 * bufferSizeH + (y1 \div 8), t |-> 7 - (y1 % 8)]

----------------------------------------------------------------------------
(* Raster primitives.  A primitive is computed as the sequence of point()  *)
(* calls it makes, <<x, y, colour>> each, applied in order to the plane.   *)

\* point(x1, y1, colour) on plane img: the plane afterwards and the exception raised
point(img, x1, y1, colour) ==
    LET oc == orientCoordinates(x1, y1)
    IN  IF oc.flag THEN [img |-> img, raised |-> "none"]
        ELSE
          LET zt == getZT(oc.x, oc.y)
              flagOdd == ((oc.x + oc.y) % 2 = 0)
              basic == IF colour = GREY
                       THEN (IF flagOdd THEN BLACK ELSE WHITE)
                       ELSE colour
              i == PyIndex(zt.z, pageColourSize)
          IN  IF Xor(basic = WHITE, invert) THEN
                  IF i < 0 THEN [img |-> img, raised |-> "IndexError"]
                  ELSE [img |-> [img EXCEPT ![i] = bitClear(img[i], zt.t)],
                        raised |-> "none"]
              ELSE IF Xor(basic = BLACK, invert) THEN
                  IF i < 0 THEN [img |-> img, raised |-> "IndexError"]
                  ELSE [img |-> [img EXCEPT ![i] = bitSet(img[i], zt.t)],
                        raised |-> "none"]
              ELSE [img |-> img, raised |-> "none"]

\* the point() calls pts[lo..hi] made in order on plane img; the first
\* exception ends them (the range is worked through by halves, first half first)
RECURSIVE drawRange(_, _, _, _)
drawRange(img, pts, lo, hi) ==
    IF lo > hi THEN [img |-> img, raised |-> "none"]
    ELSE IF lo = hi THEN point(img, pts[lo][1], pts[lo][2], pts[lo][3])
    ELSE LET mid == (lo + hi) \div 2
             r == drawRange(img, pts, lo, mid)
         IN  IF r.raised # "none" THEN r ELSE drawRange(r.img, pts, mid + 1, hi)

\* the point() calls of pts made in order; the first exception ends them
drawPoints(img, pts) == drawRange(img, pts, 1, Len(pts))

Abs(n) == IF n < 0 THEN -n ELSE n

\* for v in range(a, b + 1): f(v)
RECURSIVE vSpan(_, _, _, _)
vSpan(x, a, b, colour) ==
    IF a > b THEN <<>> ELSE <<<<x, a, colour>>>> \o vSpan(x, a + 1, b, colour)

RECURSIVE hSpan(_, _, _, _)
hSpan(a, b, y, colour) ==
    IF a > b THEN <<>> ELSE <<<<a, y, colour>>>> \o hSpan(a + 1, b, y, colour)

\* the while loop of the general case of line; err2 is twice err (err = dx / 2)
RECURSIVE bresenham(_, _, _, _, _, _, _, _, _)
bresenham(wx1, wy1, wx2, err2, dx, dy, ystep, flag, colour) ==
    IF wx1 > wx2 THEN <<>>
    ELSE LET p == IF flag THEN <<wy1, wx1, colour>> ELSE <<wx1, wy1, colour>>
             e == err2 - 2 * dy
             wy == IF e < 0 THEN wy1 + ystep ELSE wy1
             en == IF e < 0 THEN e + 2 * dx ELSE e
         IN  <<p>> \o bresenham(wx1 + 1, wy, wx2, en, dx, dy, ystep, flag, colour)

line(x1, y1, x2, y2, colour) ==
    IF x1 = x2 /\ y1 = y2 THEN <<<<x1, y1, colour>>>>
    ELSE IF x1 = x2 THEN
        (IF y1 > y2 THEN vSpan(x1, y2, y1, colour) ELSE vSpan(x1, y1, y2, colour))
    ELSE IF y1 = y2 THEN
        (IF x1 > x2 THEN hSpan(x2, x1, y1, colour) ELSE hSpan(x1, x2, y1, colour))
    ELSE
        LET flag == Abs(y2 - y1) > Abs(x2 - x1)
            ax1 == IF flag THEN y1 ELSE x1
            ay1 == IF flag THEN x1 ELSE y1
            ax2 == IF flag THEN y2 ELSE x2
            ay2 == IF flag THEN x2 ELSE y2
            wx1 == IF ax1 > ax2 THEN ax2 ELSE ax1
            wy1 == IF ax1 > ax2 THEN ay2 ELSE ay1
            wx2 == IF ax1 > ax2 THEN ax1 ELSE ax2
            wy2 == IF ax1 > ax2 THEN ay1 ELSE ay2
            dx == wx2 - wx1
            dy == Abs(wy2 - wy1)
            ystep == IF wy1 < wy2 THEN 1 ELSE -1
        IN  bresenham(wx1, wy1, wx2, dx, dx, dy, ystep, flag, colour)

\* for x in range(x1, x2 + 1): for y in range(y1, y2 + 1): point(x, y, colour)
RECURSIVE fill(_, _, _, _, _)
fill(x1, y1, x2, y2, colour) ==
    IF x1 > x2 THEN <<>>
    ELSE vSpan(x1, y1, y2, colour) \o fill(x1 + 1, y1, x2, y2, colour)

Min(a, b) == IF a < b THEN a ELSE b
Max(a, b) == IF a > b THEN a ELSE b

rectangle(x1, y1, x2, y2, colour) ==
    IF penSolid = FALSE THEN
        line(x1, y1, x1, y2, colour) \o line(x1, y1, x2, y1, colour)
        \o line(x1, y2, x2, y2, colour) \o line(x2, y1, x2, y2, colour)
    ELSE
        fill(Min(x1, x2), Min(y1, y2), Max(x1, x2), Max(y1, y2), colour)

\* dLine and dRectangle: an origin and an extent, the far corner inclusive
dLine(x0, y0, dx, dy, colour) == line(x0, y0, x0 + dx - 1, y0 + dy - 1, colour)

dRectangle(x0, y0, dx, dy, colour) ==
    rectangle(x0, y0, x0 + dx - 1, y0 + dy - 1, colour)

\* the while loop of circle with the outline pen
RECURSIVE circleOutline(_, _, _, _, _, _, _, _)
circleOutline(x0, y0, x, y, f, ddF_x, ddF_y, colour) ==
    IF ~(x < y) THEN <<>>
    ELSE LET y_n == IF f >= 0 THEN y - 1 ELSE y
             ddF_yn == IF f >= 0 THEN ddF_y + 2 ELSE ddF_y
             f_1 == IF f >= 0 THEN f + ddF_yn ELSE f
             x_n == x + 1
             ddF_xn == ddF_x + 2
             f_n == f_1 + ddF_xn
         IN  << <<x0 + x_n, y0 + y_n, colour>>, <<x0 - x_n, y0 + y_n, colour>>,
                <<x0 + x_n, y0 - y_n, colour>>, <<x0 - x_n, y0 - y_n, colour>>,
                <<x0 + y_n, y0 + x_n, colour>>, <<x0 - y_n, y0 + x_n, colour>>,
                <<x0 + y_n, y0 - x_n, colour>>, <<x0 - y_n, y0 - x_n, colour>> >>
             \o circleOutline(x0, y0, x_n, y_n, f_n, ddF_xn, ddF_yn, colour)

\* the while loop of circle with the solid pen
RECURSIVE circleSolid(_, _, _, _, _, _, _, _)
circleSolid(x0, y0, x, y, f, ddF_x, ddF_y, colour) ==
    IF ~(x < y) THEN <<>>
    ELSE LET y_n == IF f >= 0 THEN y - 1 ELSE y
             ddF_yn == IF f >= 0 THEN ddF_y + 2 ELSE ddF_y
             f_1 == IF f >= 0 THEN f + ddF_yn ELSE f
             x_n == x + 1
             ddF_xn == ddF_x + 2
             f_n == f_1 + ddF_xn
         IN  line(x0 + x_n, y0 + y_n, x0 - x_n, y0 + y_n, colour)
             \o line(x0 + x_n, y0 - y_n, x0 - x_n, y0 - y_n, colour)
             \o line(x0 + y_n, y0 - x_n, x0 + y_n, y0 + x_n, colour)
             \o line(x0 - y_n, y0 - x_n, x0 - y_n, y0 + x_n, colour)
             \o circleSolid(x0, y0, x_n, y_n, f_n, ddF_xn, ddF_yn, colour)

\* the point() calls circle makes before it reaches setPenSolid (solid pen) or returns
circle(x0, y0, radius, colour) ==
    IF penSolid = FALSE THEN
        << <<x0, y0 + radius, colour>>, <<x0, y0 - radius, colour>>,
           <<x0 + radius, y0, colour>>, <<x0 - radius, y0, colour>> >>
        \o circleOutline(x0, y0, 0, radius, 1 - radius, 1, -2 * radius, colour)
    ELSE
        circleSolid(x0, y0, 0, radius, 1 - radius, 1, -2 * radius, colour)

\* Screen has no method setPenSolid: the call circle makes with the solid pen,
\* once its loop is over, raises AttributeError and the rectangle call after it
\* is never made
circleRaised(r) ==
    IF r.raised # "none" THEN r.raised
    ELSE IF penSolid = FALSE THEN "none" ELSE "AttributeError"

\* Rows of the glyph tables of the font provider for the characters ' '
\* (c = 0) and '!' (c = 1): 6 bytes a glyph in the 6x8 table, 16 in the 8x12
\* table (two a column), 24 in the 12x16 table (two a column)
Terminal6x8e(c) ==
    IF c = 1 THEN <<0, 0, 6, 95, 6, 0>> ELSE [i \in 1..6 |-> 0]

Terminal8x12e(c) ==
    IF c = 1 THEN [i \in 1..16 |-> IF i \in {7, 9} THEN 252
                                   ELSE IF i \in {8, 10} THEN 13 ELSE 0]
    ELSE [i \in 1..16 |-> 0]

Terminal12x16e(c) ==
    IF c = 1 THEN [i \in 1..24 |-> IF i \in {11, 13} THEN 254
                                   ELSE IF i \in {12, 14} THEN 51 ELSE 0]
    ELSE [i \in 1..24 |-> 0]

\* __getCharacter(character, index): the table of font size 3 is not there
getCharacter(character, index) ==
    IF fontSize = 0 THEN Terminal6x8e(character)[index + 1]
    ELSE IF fontSize = 1 THEN Terminal8x12e(character)[index + 1]
    ELSE IF fontSize = 2 THEN Terminal12x16e(character)[index + 1]
    ELSE 0

\* font size 0, the loop over j: the point() calls of one column
RECURSIVE gTextColumn(_, _, _, _, _, _)
gTextColumn(x, y0, glyphLine, j, textColour, backColour) ==
    IF j > 7 THEN <<>>
    ELSE (IF bitRead(glyphLine, j) > 0 THEN <<<<x, y0 + j, textColour>>>>
          ELSE IF fontSolid THEN <<<<x, y0 + j, backColour>>>>
          ELSE <<>>)
         \o gTextColumn(x, y0, glyphLine, j + 1, textColour, backColour)

\* font sizes 1 and 2, the loop over j: a column is two bytes, glyphLine above
\* glyphLine1; with the solid font the rows of glyphLine1 take the back colour
\* for j < backRows only (4 for font size 1, all 8 for font size 2)
RECURSIVE gTextColumn2(_, _, _, _, _, _, _, _)
gTextColumn2(x, y0, glyphLine, glyphLine1, j, backRows, textColour, backColour) ==
    IF j > 7 THEN <<>>
    ELSE (IF bitRead(glyphLine, j) # 0 THEN <<<<x, y0 + j, textColour>>>>
          ELSE IF fontSolid THEN <<<<x, y0 + j, backColour>>>>
          ELSE <<>>)
         \o (IF bitRead(glyphLine1, j) # 0 THEN <<<<x, y0 + 8 + j, textColour>>>>
             ELSE IF fontSolid /\ j < backRows THEN <<<<x, y0 + 8 + j, backColour>>>>
             ELSE <<>>)
         \o gTextColumn2(x, y0, glyphLine, glyphLine1, j + 1, backRows,
                         textColour, backColour)

\* the loop over i: the columns of character c, the k-th of the text
RECURSIVE gTextGlyph(_, _, _, _, _, _, _)
gTextGlyph(x0, y0, k, c, i, textColour, backColour) ==
    IF fontSize = 0 THEN
        IF i > 5 THEN <<>>
        ELSE gTextColumn(x0 + 6 * k + i, y0, getCharacter(c, i), 0,
                         textColour, backColour)
             \o gTextGlyph(x0, y0, k, c, i + 1, textColour, backColour)
    ELSE IF fontSize = 1 THEN
        IF i > 7 THEN <<>>
        ELSE gTextColumn2(x0 + 8 * k + i, y0, getCharacter(c, 2 * i),
                          getCharacter(c, 2 * i + 1), 0, 4, textColour, backColour)
             \o gTextGlyph(x0, y0, k, c, i + 1, textColour, backColour)
    ELSE
        IF i > 11 THEN <<>>
        ELSE gTextColumn2(x0 + 12 * k + i, y0, getCharacter(c, 2 * i),
                          getCharacter(c, 2 * i + 1), 0, 8, textColour, backColour)
             \o gTextGlyph(x0, y0, k, c, i + 1, textColour, backColour)

\* the loop over k: text is the sequence of ord(text[k]) - ord(" ")
RECURSIVE gTextFrom(_, _, _, _, _, _)
gTextFrom(x0, y0, text, k, textColour, backColour) ==
    IF k >= Len(text) THEN <<>>
    ELSE gTextGlyph(x0, y0, k, text[k + 1], 0, textColour, backColour)
         \o gTextFrom(x0, y0, text, k + 1, textColour, backColour)

\* the point() calls gText makes: font sizes 0, 1 and 2 have a branch, any
\* other font size draws nothing
gText(x0, y0, text, textColour, backColour) ==
    IF fontSize \in {0, 1, 2}
    THEN gTextFrom(x0, y0, text, 0, textColour, backColour)
    ELSE <<>>

----------------------------------------------------------------------------
(* Bus traffic *)

PinEvent(pin, level) == [ev |-> pin, data |-> <<level>>]
WriteEvent(bytes) == [ev |-> "write", data |-> bytes]

\* the pin changes and the write of __sendCommand8(command)
sendCommand8(command) ==
    << PinEvent("dc", 0), PinEvent("cs", 0), WriteEvent(<<command>>) >>

\* a __sendIndexData that writes the payload straight after the index byte,
\* without deselecting and without switching to data mode
sendIndexData_noDataMode(index, data) ==
    << PinEvent("dc", 0), PinEvent("cs", 0), WriteEvent(<<index>>),
       WriteEvent(data), PinEvent("cs", 1) >>

\* the pin changes and the writes of __sendIndexData(index, data, size)
sendIndexData(index, data) ==
    << PinEvent("dc", 0), PinEvent("cs", 0), WriteEvent(<<index>>),
       PinEvent("cs", 1), PinEvent("dc", 1), PinEvent("cs", 0),
       WriteEvent(data), PinEvent("cs", 1) >>

\* the positions of flush() at which __waitBusy polls the busy pin
WaitPcs == {"initial_wait", "powerOn_wait", "refresh_wait", "powerOff_wait"}

\* the positions inside flush(), one per statement and busy-wait
FlushPcs ==
    {"initial_reset", "initial_temperature", "initial_activate", "initial_psr",
     "send_old", "send_new", "copy", "update_powerOn", "update_refresh",
     "powerOff"} \cup WaitPcs

\* the statement that follows each __waitBusy; the last one ends flush(), which
\* returns to its caller
AfterWait(p) ==
    CASE p = "initial_wait" -> "initial_temperature"
      [] p = "powerOn_wait" -> "update_refresh"
      [] p = "refresh_wait" -> "powerOff"
      [] p = "powerOff_wait" -> ret

----------------------------------------------------------------------------
(* Inputs *)

\* x and y handed to point and readPixel by RasterSpec: around zero and around
\* the edge of the logical screen
XCoords == ((-CoordMargin)..1) \cup {screenSizeX - 1, screenSizeX}
YCoords == ((-CoordMargin)..0) \cup {screenSizeY - 1, screenSizeY}

\* coordinates handed to line, rectangle, circle and gText by RasterSpec
ShapeCoords == ((-CoordMargin)..(-1)) \cup {0, 2}

\* extents handed to dLine and dRectangle
ExtentInputs == {1, 3}

\* arguments handed to setOrientation
OrientationInputs == 0..7

\* characters of the texts handed to gText, as ord(ch) - ord(" "): ' ' and '!'
Characters == {0, 1}

\* texts handed to gText
RECURSIVE TextsOfLen(_)
TextsOfLen(n) ==
    IF n = 0 THEN {<<>>}
    ELSE {<<c>> \o t : c \in Characters, t \in TextsOfLen(n - 1)}

Texts == UNION {TextsOfLen(n) : n \in 1..MaxTextLen}

Call(op, args, raised, result) ==
    [op |-> op, args |-> args, raised |-> raised, result |-> result]

Bit(flag) == IF flag THEN 1 ELSE 0

----------------------------------------------------------------------------
(* Initial state: a Screen as __init__ leaves it.  _penSolid is a class     *)
(* attribute no method assigns; a caller that wants the solid pen sets it. *)
(* The levels of the pins before their first write are the hardware's.     *)

Init ==
    /\ \E p \in Panels : screenSizeV = p[1] /\ screenSizeH = p[2]
    /\ newImage = Filled(pageColourSize, 0)
    /\ oldImage = Filled(pageColourSize, 0)
    /\ orientation = 0
    /\ invert = FALSE
    /\ penSolid \in BOOLEAN
    /\ fontSolid = FALSE
    /\ fontSize = 0
    /\ cs \in {0, 1}
    /\ dc \in {0, 1}
    /\ busy \in {0, 1}
    /\ bus = <<>>
    /\ pc = "idle"
    /\ ret = "idle"
    /\ lastCall = Call("__init__", <<screenSizeV, screenSizeH>>, "none", <<>>)
    /\ callsLeft = MaxCalls
    /\ drawsLeft = MaxCalls

\* a Screen after begin(), setOrientation, invert, setFontSolid and a flush of
\* the blank planes.  No primitive reads both the pen and the font mode, so
\* the runs start with both plain or both solid
InitRaster ==
    /\ \E p \in Panels : screenSizeV = p[1] /\ screenSizeH = p[2]
    /\ newImage = Filled(pageColourSize, 0)
    /\ oldImage = Filled(pageColourSize, 0)
    /\ orientation \in 0..3
    /\ invert \in BOOLEAN
    /\ penSolid \in BOOLEAN
    /\ fontSolid = penSolid
    /\ fontSize = 0
    /\ cs = 1
    /\ dc = 0
    /\ busy = 1
    /\ bus = <<>>
    /\ pc = "idle"
    /\ ret = "idle"
    /\ lastCall = Call("__init__", <<screenSizeV, screenSizeH>>, "none", <<>>)
    /\ callsLeft = MaxRasterCalls
    /\ drawsLeft = MaxDraws

----------------------------------------------------------------------------
(* Calls that configure or read the screen *)

\* a call of the API that leaves the planes and the bus alone
Plain(op, args, raised, result) ==
    /\ pc = "idle"
    /\ callsLeft > 0
    /\ callsLeft' = callsLeft - 1
    /\ lastCall' = Call(op, args, raised, result)
    /\ UNCHANGED <<screenSizeV, screenSizeH, ret, newImage, oldImage, penSolid, busy,
                   bus, pc, drawsLeft>>

\* Font.MAX_FONT_SIZE of the font provider
MAX_FONT_SIZE == 4

\* font sizes handed to selectFont
FontInputs == (-1)..MAX_FONT_SIZE

\* the value selectFont(font) stores in _fontSize
selectFont(font) ==
    IF font < MAX_FONT_SIZE THEN font ELSE MAX_FONT_SIZE - 1

SelectFont(font) ==
    /\ Plain("selectFont", <<font>>, "none", <<>>)
    /\ fontSize' = selectFont(font)
    /\ UNCHANGED <<orientation, invert, fontSolid, cs, dc>>

\* begin() drives cs high, pulses the reset pin and selects font 0
Begin ==
    /\ Plain("begin", <<>>, "none", <<>>)
    /\ cs' = 1
    /\ fontSize' = selectFont(0)
    /\ UNCHANGED <<orientation, invert, fontSolid, dc>>

\* the value setOrientation(o) stores.  The branches for 6 and 7 assign 0 or 1
\* (screenSizeX() and screenSizeY() being read with _orientation = 0, where they
\* are _screenSizeH and _screenSizeV); the last statement is outside both
\* branches and assigns o % 4 over whatever they stored
setOrientation(o) ==
    LET inBranch == IF o = 6 THEN (IF screenSizeH > screenSizeV THEN 1 ELSE 0)
                    ELSE IF o = 7 THEN (IF screenSizeH < screenSizeV THEN 1 ELSE 0)
                    ELSE orientation
    IN  o % 4

SetOrientation(o) ==
    /\ Plain("setOrientation", <<o>>, "none", <<>>)
    /\ orientation' = setOrientation(o)
    /\ UNCHANGED <<invert, fontSolid, fontSize, cs, dc>>

Invert(flag) ==
    /\ Plain("invert", <<Bit(flag)>>, "none", <<>>)
    /\ invert' = flag
    /\ UNCHANGED <<orientation, fontSolid, fontSize, cs, dc>>

SetFontSolid(flag) ==
    /\ Plain("setFontSolid", <<Bit(flag)>>, "none", <<>>)
    /\ fontSolid' = flag
    /\ UNCHANGED <<orientation, invert, fontSize, cs, dc>>

\* readPixel(x1, y1): out of bounds it returns 0; in bounds the statement
\* value(0) reads the local name value before any assignment to it and raises
readPixel(x1, y1) ==
    LET oc == orientCoordinates(x1, y1)
    IN  IF oc.flag THEN [raised |-> "none", result |-> <<0>>]
        ELSE [raised |-> "UnboundLocalError", result |-> <<>>]

ReadPixel(x, y) ==
    /\ LET r == readPixel(x, y)
       IN  Plain("readPixel", <<x, y>>, r.raised, r.result)
    /\ UNCHANGED <<orientation, invert, fontSolid, fontSize, cs, dc>>

----------------------------------------------------------------------------
(* Calls that write the "current" plane *)

\* a call of the API that leaves plane img in _newImage
Write(op, args, img, raised) ==
    /\ pc = "idle"
    /\ callsLeft > 0
    /\ callsLeft' = callsLeft - 1
    /\ newImage' = img
    /\ lastCall' = Call(op, args, raised, <<>>)
    /\ UNCHANGED <<screenSizeV, screenSizeH, ret, oldImage, orientation, invert,
                   penSolid, fontSolid, fontSize, cs, dc, busy, bus, pc>>

\* the plane clear(colour) leaves
clear(colour) ==
    IF colour = GREY THEN
        [z \in 0..(pageColourSize - 1) |->
            IF (z \div bufferSizeH) % 2 = 0 THEN 170 ELSE 85]
    ELSE IF Xor(colour = WHITE, invert) THEN Filled(pageColourSize, 0)
    ELSE Filled(pageColourSize, 255)

Clear(colour) ==
    /\ Write("clear", <<colour>>, clear(colour), "none")
    /\ UNCHANGED drawsLeft

Draw(op, args, r, raised) ==
    /\ drawsLeft > 0
    /\ drawsLeft' = drawsLeft - 1
    /\ Write(op, args, r.img, raised)

Point(x, y, colour) ==
    LET r == point(newImage, x, y, colour)
    IN  Draw("point", <<x, y, colour>>, r, r.raised)

Line(x1, y1, x2, y2, colour) ==
    LET r == drawPoints(newImage, line(x1, y1, x2, y2, colour))
    IN  Draw("line", <<x1, y1, x2, y2, colour>>, r, r.raised)

Rectangle(x1, y1, x2, y2, colour) ==
    LET r == drawPoints(newImage, rectangle(x1, y1, x2, y2, colour))
    IN  Draw("rectangle", <<x1, y1, x2, y2, colour>>, r, r.raised)

DLine(x0, y0, dx, dy, colour) ==
    LET r == drawPoints(newImage, dLine(x0, y0, dx, dy, colour))
    IN  Draw("dLine", <<x0, y0, dx, dy, colour>>, r, r.raised)

DRectangle(x0, y0, dx, dy, colour) ==
    LET r == drawPoints(newImage, dRectangle(x0, y0, dx, dy, colour))
    IN  Draw("dRectangle", <<x0, y0, dx, dy, colour>>, r, r.raised)

Circle(x0, y0, radius, colour) ==
    LET r == drawPoints(newImage, circle(x0, y0, radius, colour))
    IN  Draw("circle", <<x0, y0, radius, colour>>, r, circleRaised(r))

GText(x0, y0, text, textColour, backColour) ==
    LET r == drawPoints(newImage, gText(x0, y0, text, textColour, backColour))
    IN  Draw("gText", <<x0, y0, text, textColour, backColour>>, r, r.raised)

----------------------------------------------------------------------------
(* flush(): __COG_initial, __COG_sendImageDataFast, __COG_update,          *)
(* __COG_powerOff, one action per statement                                *)

\* a statement of flush that changes only the pins, the log and the position
FlushStep(from, to, events, csAfter, dcAfter) ==
    /\ pc = from
    /\ pc' = to
    /\ bus' = bus \o events
    /\ cs' = csAfter
    /\ dc' = dcAfter
    /\ UNCHANGED <<screenSizeV, screenSizeH, ret, newImage, oldImage, orientation,
                   invert, penSolid, fontSolid, fontSize, busy, lastCall, callsLeft,
                   drawsLeft>>

\* the call of flush(): the log starts afresh
Flush ==
    /\ pc = "idle"
    /\ callsLeft > 0
    /\ callsLeft' = callsLeft - 1
    /\ pc' = "initial_reset"
    /\ ret' = "idle"
    /\ bus' = <<>>
    /\ lastCall' = Call("flush", <<>>, "none", <<>>)
    /\ UNCHANGED <<screenSizeV, screenSizeH, newImage, oldImage, orientation,
                   invert, penSolid, fontSolid, fontSize, cs, dc, busy, drawsLeft>>

\* the call of regenerate(): clear(BLACK), then its first flush()
Regenerate ==
    /\ pc = "idle"
    /\ callsLeft > 0
    /\ callsLeft' = callsLeft - 1
    /\ newImage' = clear(BLACK)
    /\ pc' = "initial_reset"
    /\ ret' = "regenerate_white"
    /\ bus' = <<>>
    /\ lastCall' = Call("regenerate", <<>>, "none", <<>>)
    /\ UNCHANGED <<screenSizeV, screenSizeH, oldImage, orientation, invert,
                   penSolid, fontSolid, fontSize, cs, dc, busy, drawsLeft>>

\* regenerate() after its first flush(): clear(WHITE), then its second
\* flush(), after which it returns
Regenerate_white ==
    /\ pc = "regenerate_white"
    /\ newImage' = clear(WHITE)
    /\ pc' = "initial_reset"
    /\ ret' = "idle"
    /\ bus' = <<>>
    /\ UNCHANGED <<screenSizeV, screenSizeH, oldImage, orientation, invert,
                   penSolid, fontSolid, fontSize, cs, dc, busy, lastCall,
                   callsLeft, drawsLeft>>

COG_initial_reset ==
    FlushStep("initial_reset", "initial_wait", sendIndexData(0, <<0>>), 1, 1)

COG_initial_temperature ==
    FlushStep("initial_temperature", "initial_activate",
              sendIndexData(229, <<BitOr(25, 64)>>), 1, 1)

COG_initial_activate ==
    FlushStep("initial_activate", "initial_psr", sendIndexData(224, <<2>>), 1, 1)

COG_initial_psr ==
    FlushStep("initial_psr", "send_old", sendIndexData(0, <<BitOr(207, 16), BitOr(141, 2)>>), 1, 1)

\* a flush that transfers the "current" plane to register 0x10 as well
COG_sendImageDataFast_old_sendsNew ==
    FlushStep("send_old", "send_new", sendIndexData(16, Bytes(newImage)), 1, 1)

COG_sendImageDataFast_old ==
    FlushStep("send_old", "send_new", sendIndexData(16, Bytes(oldImage)), 1, 1)

COG_sendImageDataFast_new ==
    FlushStep("send_new", "copy", sendIndexData(19, Bytes(newImage)), 1, 1)

\* self._oldImage[:] = self._newImage
COG_sendImageDataFast_copy ==
    /\ pc = "copy"
    /\ pc' = "update_powerOn"
    /\ oldImage' = newImage
    /\ UNCHANGED <<screenSizeV, screenSizeH, ret, newImage, orientation, invert,
                   penSolid, fontSolid, fontSize, cs, dc, busy, bus, lastCall, callsLeft,
                   drawsLeft>>

COG_update_powerOn ==
    FlushStep("update_powerOn", "powerOn_wait",
              sendCommand8(4) \o <<PinEvent("cs", 1)>>, 1, 0)

COG_update_refresh ==
    FlushStep("update_refresh", "refresh_wait",
              sendCommand8(18) \o <<PinEvent("cs", 1)>>, 1, 0)

COG_powerOff ==
    FlushStep("powerOff", "powerOff_wait",
              sendCommand8(2) \o <<PinEvent("cs", 1)>>, 1, 0)

\* a __waitBusy that returns after its first read, whatever the level
waitBusy_ignoresLevel(p, level) == AfterWait(p)

\* a __waitBusy that takes the low level for ready
waitBusy_inverted(p, level) == IF level # 0 THEN p ELSE AfterWait(p)

\* where __waitBusy goes after one read of the busy pin
waitBusy(p, level) == IF level # 1 THEN p ELSE AfterWait(p)

\* __waitBusy reads the pin ready and returns; after the last one flush returns
WaitBusyReady ==
    /\ pc \in WaitPcs
    /\ busy = 1
    /\ pc' = waitBusy(pc, busy)
    /\ UNCHANGED <<screenSizeV, screenSizeH, ret, newImage, oldImage, orientation,
                   invert, penSolid, fontSolid, fontSize, cs, dc, busy, bus, lastCall,
                   callsLeft, drawsLeft>>

\* __waitBusy reads the pin busy, sleeps and polls again
WaitBusySleep ==
    /\ pc \in WaitPcs
    /\ busy # 1
    /\ pc' = waitBusy(pc, busy)
    /\ UNCHANGED <<screenSizeV, screenSizeH, ret, newImage, oldImage, orientation,
                   invert, penSolid, fontSolid, fontSize, cs, dc, busy, bus, lastCall,
                   callsLeft, drawsLeft>>

\* the panel drives its busy pin while a flush is in progress
PanelBusy ==
    /\ pc # "idle"
    /\ busy = 1
    /\ busy' = 0
    /\ UNCHANGED <<screenSizeV, screenSizeH, ret, newImage, oldImage, orientation,
                   invert, penSolid, fontSolid, fontSize, cs, dc, bus, pc, lastCall,
                   callsLeft, drawsLeft>>

PanelReady ==
    /\ pc # "idle"
    /\ busy = 0
    /\ busy' = 1
    /\ UNCHANGED <<screenSizeV, screenSizeH, ret, newImage, oldImage, orientation,
                   invert, penSolid, fontSolid, fontSize, cs, dc, bus, pc, lastCall,
                   callsLeft, drawsLeft>>

FlushProgram ==
    \/ COG_initial_reset
    \/ COG_initial_temperature
    \/ COG_initial_activate
    \/ COG_initial_psr
    \/ COG_sendImageDataFast_old
    \/ COG_sendImageDataFast_new
    \/ COG_sendImageDataFast_copy
    \/ COG_update_powerOn
    \/ COG_update_refresh
    \/ COG_powerOff
    \/ WaitBusyReady
    \/ WaitBusySleep

----------------------------------------------------------------------------
(* Spec: every call of the API and the flush protocol, the drawing calls    *)
(* with a few arguments each.                                              *)

Next ==
    \/ Begin
    \/ \E o \in {2, 7} : SetOrientation(o)
    \/ Invert(TRUE)
    \/ SetFontSolid(TRUE)
    \/ SelectFont(2)
    \/ \E c \in Colours : Clear(c)
    \/ ReadPixel(0, 0)
    \/ \E x \in {0, 1}, c \in {BLACK, WHITE} : Point(x, 0, c)
    \/ Line(0, 0, 1, 1, BLACK)
    \/ Rectangle(0, 0, 1, 1, BLACK)
    \/ DLine(0, 0, 2, 2, BLACK)
    \/ DRectangle(0, 0, 2, 2, BLACK)
    \/ Circle(1, 1, 1, BLACK)
    \/ GText(0, 0, <<1>>, BLACK, WHITE)
    \/ Flush
    \/ FlushProgram
    \/ Regenerate
    \/ Regenerate_white
    \/ PanelBusy
    \/ PanelReady

Spec == Init /\ [][Next]_vars

(* RasterSpec: the calls that draw and read, over the coordinates around    *)
(* the edges of the screen, in every orientation.                          *)

NextRaster ==
    \/ \E o \in OrientationInputs : SetOrientation(o)
    \/ \E f \in BOOLEAN : Invert(f)
    \/ SetFontSolid(TRUE)
    \/ \E f \in FontInputs : SelectFont(f)
    \/ \E c \in Colours : Clear(c)
    \/ \E x \in XCoords, y \in YCoords : ReadPixel(x, y)
    \/ \E x \in XCoords, y \in YCoords, c \in Colours : Point(x, y, c)
    \/ \E x1 \in ShapeCoords, y1 \in ShapeCoords, x2 \in {0, 2}, y2 \in {0, 2} :
          Line(x1, y1, x2, y2, BLACK)
    \/ \E x1 \in ShapeCoords, y1 \in ShapeCoords, x2 \in {0, 2}, y2 \in {0, 2},
          c \in {BLACK, WHITE} : Rectangle(x1, y1, x2, y2, c)
    \/ \E x0 \in ShapeCoords, dx \in ExtentInputs, dy \in ExtentInputs :
          DLine(x0, 0, dx, dy, BLACK)
    \/ \E x0 \in ShapeCoords, dx \in ExtentInputs, dy \in ExtentInputs :
          DRectangle(x0, 0, dx, dy, BLACK)
    \/ \E x0 \in ShapeCoords, y0 \in ShapeCoords, r \in 0..MaxRadius :
          Circle(x0, y0, r, BLACK)
    \/ \E x0 \in ShapeCoords, t \in Texts : GText(x0, 0, t, BLACK, WHITE)

RasterSpec == InitRaster /\ [][NextRaster]_vars

FairSpec ==
    /\ Spec
    /\ WF_vars(FlushProgram) /\ WF_vars(Regenerate_white)
    /\ SF_vars(WaitBusyReady) /\ WF_vars(PanelReady)

----------------------------------------------------------------------------
(* Reading the bus log *)

\* the SPI writes of log b in order, each with the levels of dc and cs it was
\* made under (-1: the log has not driven the pin yet)
RECURSIVE writesFrom(_, _, _, _)
writesFrom(b, i, dcLevel, csLevel) ==
    IF i > Len(b) THEN <<>>
    ELSE IF b[i].ev = "dc" THEN writesFrom(b, i + 1, b[i].data[1], csLevel)
    ELSE IF b[i].ev = "cs" THEN writesFrom(b, i + 1, dcLevel, b[i].data[1])
    ELSE <<[dc |-> dcLevel, cs |-> csLevel, bytes |-> b[i].data]>>
         \o writesFrom(b, i + 1, dcLevel, csLevel)

Writes(b) == writesFrom(b, 1, -1, -1)

IsCommand(w) == w.dc = 0
IsData(w) == w.dc = 1

\* the bytes written in command mode, in order
CommandBytes(b) ==
    LET c == SelectSeq(Writes(b), IsCommand)
    IN  [i \in 1..Len(c) |-> c[i].bytes[1]]

\* the payloads written in data mode, in order
Payloads(b) ==
    LET d == SelectSeq(Writes(b), IsData)
    IN  [i \in 1..Len(d) |-> d[i].bytes]

\* the position in Writes(b) of the first command-mode write of byte index, or 0
RECURSIVE findCommand(_, _, _)
findCommand(w, index, i) ==
    IF i > Len(w) THEN 0
    ELSE IF w[i].dc = 0 /\ w[i].bytes = <<index>> THEN i
    ELSE findCommand(w, index, i + 1)

\* register index has been written with a payload
Sent(b, index) ==
    LET w == Writes(b)
        i == findCommand(w, index, 1)
    IN  i > 0 /\ i < Len(w) /\ w[i + 1].dc = 1

\* the payload written to register index
Payload(b, index) ==
    LET w == Writes(b) IN w[findCommand(w, index, 1) + 1].bytes

IsPrefix(s, t) == Len(s) <= Len(t) /\ \A i \in 1..Len(s) : s[i] = t[i]

\* the command and index bytes of one flush and the payloads of its registers
\* other than the two image transfers
FlushCommands == <<0, 229, 224, 0, 16, 19, 4, 18, 2>>
FlushSettings == << <<0>>, <<89>>, <<2>>, <<223, 143>> >>

----------------------------------------------------------------------------
(* C2: in every flush the bytes written to register 0x10 are the "previous" *)
(* plane as it was when flush started and the bytes written to 0x13 are    *)
(* the "current" plane; "previous" is overwritten with "current" only      *)
(* after both transfers have been written; no call other than flush        *)
(* changes "previous", flush never changes "current", and when flush       *)
(* returns the two planes are equal.  "previous" cannot change between the *)
(* start of flush and the transfer to 0x10 because it changes only once    *)
(* both transfers are in the log.                                          *)
C2_FlushTransfersPlanes ==
    [][ /\ (Sent(bus', 16) /\ ~Sent(bus, 16)
              => Payload(bus', 16) = Bytes(oldImage))
        /\ (Sent(bus', 19) /\ ~Sent(bus, 19)
              => Payload(bus', 19) = Bytes(newImage))
        /\ (oldImage' # oldImage
              => /\ pc \in FlushPcs
                 /\ Sent(bus, 16) /\ Sent(bus, 19)
                 /\ oldImage' = newImage)
        /\ (pc \notin FlushPcs => oldImage' = oldImage)
        /\ (pc \in FlushPcs \/ (callsLeft' # callsLeft /\ lastCall'.op = "flush")
              => newImage' = newImage)
        /\ (pc \in FlushPcs /\ pc' \notin FlushPcs
              => /\ oldImage' = newImage'
                 /\ Sent(bus', 16) /\ Sent(bus', 19)
                 /\ Payload(bus', 19) = Bytes(newImage'))
      ]_vars

\* a flush has returned that found the two planes different
C2_Witness ==
    /\ pc = "idle"
    /\ lastCall.op = "flush"
    /\ Sent(bus, 16) /\ Sent(bus, 19)
    /\ Payload(bus, 16) # Payload(bus, 19)
    /\ oldImage = newImage
    /\ Payload(bus, 19) = Bytes(newImage)

(* C3: a flush writes the command and index bytes 0x00, 0xE5, 0xE0, 0x00,   *)
(* 0x10, 0x13, 0x04, 0x12, 0x02 in this order and no others, with the      *)
(* payloads 0x00, 0x59, 0x02 and 0xDF 0x8F for the first four; the step    *)
(* that writes the soft reset, 0x04, 0x12 or 0x02 enters a busy-wait; a    *)
(* busy-wait writes nothing and is left only on a read of the busy pin     *)
(* that finds it ready, and flush returns only from the last one.  The log  *)
(* starts empty, so its contents are examined on the steps that change it. *)
C3_FlushCommandOrder ==
    [][ /\ (bus' # bus =>
              LET commands == CommandBytes(bus')
                  payloads == Payloads(bus')
              IN  /\ IsPrefix(commands, FlushCommands)
                  /\ \A i \in 1..Len(FlushSettings) :
                        Len(payloads) >= i => payloads[i] = FlushSettings[i]
                  /\ (pc \in FlushPcs
                        /\ (Len(commands) = 1
                              \/ commands[Len(commands)] \in {4, 18, 2})
                        => pc' \in WaitPcs))
        /\ (pc \in WaitPcs => bus' = bus /\ (pc' # pc => busy = 1))
        /\ (pc \in FlushPcs /\ pc' \notin FlushPcs
              => /\ pc = "powerOff_wait"
                 /\ CommandBytes(bus') = FlushCommands
                 /\ Len(Writes(bus')) = 15)
      ]_vars

\* a flush has written all nine bytes and polls the busy pin of a busy panel
C3_Witness ==
    /\ pc = "powerOff_wait"
    /\ busy = 0
    /\ CommandBytes(bus) = FlushCommands

(* C8: flush has no timeout.  If a read of the busy pin that finds it ready *)
(* eventually happens in each busy-wait (FairSpec), every flush returns,   *)
(* and it returns with the power-off command 0x02 as the last byte         *)
(* written; as long as the pin does not read ready flush stays in its      *)
(* busy-wait and writes nothing.                                           *)
C8_FlushReturnsIffReady ==
    /\ (pc \in FlushPcs)
         ~> (pc \notin FlushPcs /\ CommandBytes(bus) = FlushCommands
             /\ Writes(bus)[Len(Writes(bus))].bytes = <<2>>)
    /\ [][(pc \in WaitPcs /\ busy # 1) => (pc' = pc /\ bus' = bus)]_vars

\* a flush has returned, the power-off command the last of its 15 writes
C8_Witness ==
    /\ pc = "idle"
    /\ lastCall.op = "flush"
    /\ Len(Writes(bus)) = 15
    /\ Writes(bus)[15].bytes = <<2>>

----------------------------------------------------------------------------
(* Readers of the planes, through the orientation mapper and the addressing *)
(* of point().                                                              *)

\* (x, y) is on the logical screen of the current orientation
InBounds(x, y) == x >= 0 /\ x < screenSizeX /\ y >= 0 /\ y < screenSizeY

\* the pixels of the logical screen
LogicalPixels == (0..(screenSizeX - 1)) \X (0..(screenSizeY - 1))

\* the byte index and bit position point() addresses for logical (x, y)
Address(x, y) ==
    LET oc == orientCoordinates(x, y)
    IN  getZT(oc.x, oc.y)

\* the bit of plane img that holds logical (x, y): 1, 0, or -1 if the plane
\* has no such byte
PixelBit(img, x, y) ==
    LET zt == Address(x, y)
        i == PyIndex(zt.z, pageColourSize)
    IN  IF orientCoordinates(x, y).flag \/ i < 0 THEN -1
        ELSE IF bitRead(img[i], zt.t) # 0 THEN 1 ELSE 0

\* the bit point() stores for BLACK or WHITE under the current invert flag
InkBit(colour) == IF Xor(colour = WHITE, invert) THEN 0 ELSE 1

\* the step is a call of op
Called(op) == callsLeft' # callsLeft /\ lastCall'.op = op

(* C1: point(x, y, BLACK) at an in-bounds (x, y) followed by                *)
(* readPixel(x, y) returns BLACK with invert false and WHITE with invert   *)
(* true, readPixel completing normally, in every orientation.              *)
C1_PointThenReadPixel ==
    [][ (/\ lastCall.op = "point"
         /\ lastCall.raised = "none"
         /\ lastCall.args[3] = BLACK
         /\ InBounds(lastCall.args[1], lastCall.args[2])
         /\ Called("readPixel")
         /\ lastCall'.args = <<lastCall.args[1], lastCall.args[2]>>)
        => (/\ lastCall'.raised = "none"
            /\ lastCall'.result = <<IF invert THEN WHITE ELSE BLACK>>)
      ]_vars

\* the point() calls a line, rectangle or circle call c makes
ShapePoints(c) ==
    IF c.op = "line"
    THEN line(c.args[1], c.args[2], c.args[3], c.args[4], c.args[5])
    ELSE IF c.op = "rectangle"
    THEN rectangle(c.args[1], c.args[2], c.args[3], c.args[4], c.args[5])
    ELSE circle(c.args[1], c.args[2], c.args[3], c.args[4])

\* the calls of pts that address the logical screen
InBoundsOnly(pts) == SelectSeq(pts, LAMBDA p : InBounds(p[1], p[2]))

(* C4: point(x, y, colour) at an (x, y) outside the logical screen (x < 0,  *)
(* y < 0, x >= screenSizeX() or y >= screenSizeY()) returns without        *)
(* raising and leaves every byte of the "current" plane as it was; a line, *)
(* rectangle or circle that reaches past an edge therefore leaves the      *)
(* plane as its in-bounds points alone leave it.                           *)
C4_OutOfBoundsIsNoOp ==
    [][ /\ (Called("point")
              /\ ~InBounds(lastCall'.args[1], lastCall'.args[2])
              => lastCall'.raised = "none" /\ newImage' = newImage)
        /\ (Called("line") \/ Called("rectangle") \/ Called("circle")
              => newImage' =
                   drawPoints(newImage, InBoundsOnly(ShapePoints(lastCall'))).img)
      ]_vars

(* C5: after clear(WHITE) readPixel returns WHITE at every in-bounds        *)
(* coordinate, and after clear(BLACK) it returns BLACK, in every           *)
(* orientation.                                                            *)
C5_ClearThenReadPixel ==
    [][ (/\ lastCall.op = "clear"
         /\ lastCall.args[1] \in {WHITE, BLACK}
         /\ Called("readPixel")
         /\ InBounds(lastCall'.args[1], lastCall'.args[2]))
        => (/\ lastCall'.raised = "none"
            /\ lastCall'.result = <<lastCall.args[1]>>)
      ]_vars

(* C6: the stored orientation is always in 0..3; setOrientation(6) stores 1 *)
(* when the width exceeds the height and 0 otherwise, setOrientation(7)    *)
(* stores 1 when the width is less than the height and 0 otherwise (width  *)
(* and height being screenSizeX() and screenSizeY() as the branch reads    *)
(* them, with orientation 0).                                              *)
C6_OrientationNormalised ==
    /\ orientation \in 0..3
    /\ (lastCall.op = "setOrientation" /\ lastCall.args[1] = 6
          => orientation = IF screenSizeH > screenSizeV THEN 1 ELSE 0)
    /\ (lastCall.op = "setOrientation" /\ lastCall.args[1] = 7
          => orientation = IF screenSizeH < screenSizeV THEN 1 ELSE 0)

(* C7: a plane holds V * ceil(H / 8) bytes; in every orientation every      *)
(* in-bounds logical pixel is addressed at a byte index inside the plane,  *)
(* and two distinct in-bounds pixels never share a byte and bit.           *)
C7_PlaneAddressing ==
    /\ pageColourSize = screenSizeV * ((screenSizeH + 7) \div 8)
    /\ DOMAIN newImage = 0..(screenSizeV * ((screenSizeH + 7) \div 8) - 1)
    /\ \A p \in LogicalPixels :
          /\ ~orientCoordinates(p[1], p[2]).flag
          /\ Address(p[1], p[2]).z \in 0..(pageColourSize - 1)
    /\ \A p, q \in LogicalPixels :
          p # q => Address(p[1], p[2]) # Address(q[1], q[2])

(* C9: with the solid pen rectangle(x1, y1, x2, y2, colour) sets every      *)
(* in-bounds pixel of [min(x1,x2), max(x1,x2)] x [min(y1,y2), max(y1,y2)]  *)
(* to the colour and changes no pixel outside the range; with the outline  *)
(* pen only pixels on the four border lines may change, pixels strictly    *)
(* inside and pixels outside the rectangle stay as they were.              *)
C9_RectangleFill ==
    [][ Called("rectangle") =>
          LET a == lastCall'.args
              xlo == Min(a[1], a[3])
              xhi == Max(a[1], a[3])
              ylo == Min(a[2], a[4])
              yhi == Max(a[2], a[4])
              InRange(p) == /\ xlo <= p[1] /\ p[1] <= xhi
                            /\ ylo <= p[2] /\ p[2] <= yhi
              OnBorder(p) == InRange(p) /\ (p[1] \in {xlo, xhi} \/ p[2] \in {ylo, yhi})
              Same(p) == PixelBit(newImage', p[1], p[2]) = PixelBit(newImage, p[1], p[2])
          IN  \A p \in LogicalPixels :
                 IF penSolid
                 THEN IF InRange(p)
                      THEN PixelBit(newImage', p[1], p[2]) = InkBit(a[5])
                      ELSE Same(p)
                 ELSE OnBorder(p) \/ Same(p)
      ]_vars

(* C10: an in-bounds point(x, y, colour) changes at most the pixel (x, y):  *)
(* every other in-bounds pixel holds the same bit before and after, and    *)
(* the "previous" plane is unchanged.  On a V = 2, H = 8 panel cleared to  *)
(* WHITE on which point(0, 0, BLACK) has been drawn, readPixel(0, 0)       *)
(* returns BLACK and readPixel(1, 0) returns WHITE.                        *)
C10_PointFrame ==
    [][ /\ (Called("point")
              /\ InBounds(lastCall'.args[1], lastCall'.args[2])
              => /\ oldImage' = oldImage
                 /\ \A q \in LogicalPixels \ {<<lastCall'.args[1], lastCall'.args[2]>>} :
                       PixelBit(newImage', q[1], q[2]) = PixelBit(newImage, q[1], q[2]))
        /\ (/\ screenSizeV = 2 /\ screenSizeH = 8 /\ ~invert
            /\ lastCall.op = "point"
            /\ lastCall.args = <<0, 0, BLACK>>
            /\ newImage = point(clear(WHITE), 0, 0, BLACK).img
            /\ Called("readPixel")
            /\ lastCall'.args \in {<<0, 0>>, <<1, 0>>}
            => /\ lastCall'.raised = "none"
               /\ lastCall'.result =
                    <<IF lastCall'.args = <<0, 0>> THEN BLACK ELSE WHITE>>)
      ]_vars

----------------------------------------------------------------------------
(* The pin protocol of the bus log *)

\* events i.. of log b are one register write: command mode, select, index
\* byte, deselect, data mode, select, payload, deselect
IsRegisterWrite(b, i) ==
    /\ i + 7 <= Len(b)
    /\ b[i] = PinEvent("dc", 0)
    /\ b[i + 1] = PinEvent("cs", 0)
    /\ b[i + 2].ev = "write" /\ Len(b[i + 2].data) = 1
    /\ b[i + 3] = PinEvent("cs", 1)
    /\ b[i + 4] = PinEvent("dc", 1)
    /\ b[i + 5] = PinEvent("cs", 0)
    /\ b[i + 6].ev = "write" /\ Len(b[i + 6].data) >= 1
    /\ b[i + 7] = PinEvent("cs", 1)

\* events i.. of log b are one bare command: command mode, select, command
\* byte, deselect
IsCommandWrite(b, i) ==
    /\ i + 3 <= Len(b)
    /\ b[i] = PinEvent("dc", 0)
    /\ b[i + 1] = PinEvent("cs", 0)
    /\ b[i + 2].ev = "write" /\ Len(b[i + 2].data) = 1
    /\ b[i + 3] = PinEvent("cs", 1)

\* log b from event i on is a succession of register writes and bare commands
RECURSIVE InProtocol(_, _)
InProtocol(b, i) ==
    IF i > Len(b) THEN TRUE
    ELSE IF IsRegisterWrite(b, i) THEN InProtocol(b, i + 8)
    ELSE IF IsCommandWrite(b, i) THEN InProtocol(b, i + 4)
    ELSE FALSE

(* C11: during flush every write to the bus is made with chip-select low;   *)
(* index and command bytes are written with dc low and payloads with dc    *)
(* high; every register write is the succession command mode, select,      *)
(* index byte, deselect, data mode, select, payload, deselect (a bare      *)
(* command is command mode, select, command byte, deselect); chip-select   *)
(* is high whenever a busy-wait polls and when flush has returned.         *)
C11_PinProtocol ==
    /\ LET w == Writes(bus)
       IN  \A i \in 1..Len(w) :
              /\ w[i].cs = 0
              /\ w[i].dc \in {0, 1}
              /\ (IsCommand(w[i]) => Len(w[i].bytes) = 1)
              /\ (IsData(w[i]) => i > 1 /\ IsCommand(w[i - 1]))
    /\ InProtocol(bus, 1)
    /\ (pc \in WaitPcs => cs = 1 /\ bus[Len(bus)] = PinEvent("cs", 1))
    /\ (pc \notin FlushPcs /\ bus # <<>>
          => cs = 1 /\ bus[Len(bus)] = PinEvent("cs", 1))

\* a flush polls the busy pin after the refresh command: six register writes
\* and two bare commands are in the log
C11_Witness ==
    /\ pc = "refresh_wait"
    /\ cs = 1
    /\ Len(bus) = 6 * 8 + 2 * 4
    /\ Len(Writes(bus)) = 14
    /\ IsRegisterWrite(bus, 1)
    /\ IsCommandWrite(bus, 53)

----------------------------------------------------------------------------
(* The solid circle *)

\* the values of x and y with which the midpoint loop of circle ends
RECURSIVE circleFinal(_, _, _, _, _)
circleFinal(x, y, f, ddF_x, ddF_y) ==
    IF ~(x < y) THEN [x |-> x, y |-> y]
    ELSE LET y_n == IF f >= 0 THEN y - 1 ELSE y
             ddF_yn == IF f >= 0 THEN ddF_y + 2 ELSE ddF_y
             f_1 == IF f >= 0 THEN f + ddF_yn ELSE f
         IN  circleFinal(x + 1, y_n, f_1 + ddF_x + 2, ddF_x + 2, ddF_yn)

(* C12: with the solid pen circle(x0, y0, r, colour) returns without an     *)
(* exception; its last step is a solid rectangle over [x0-x, x0+x] x       *)
(* [y0-y, y0+y] for the final midpoint values x, y, so afterwards every    *)
(* in-bounds pixel of that square holds the colour, and the pen is still   *)
(* solid.                                                                  *)
C12_SolidCircle ==
    [][ Called("circle") /\ penSolid =>
          LET a == lastCall'.args
              fin == circleFinal(0, a[3], 1 - a[3], 1, -2 * a[3])
          IN  /\ lastCall'.raised = "none"
              /\ penSolid'
              /\ \A p \in LogicalPixels :
                    (/\ a[1] - fin.x <= p[1] /\ p[1] <= a[1] + fin.x
                     /\ a[2] - fin.y <= p[2] /\ p[2] <= a[2] + fin.y)
                    => PixelBit(newImage', p[1], p[2]) = InkBit(a[4])
      ]_vars

====
